---- MODULE Spec2Model ----
(***************************************************************************)
(* initkit: src/index.js.  A state-machine model of the scaffolding CLI:   *)
(* copyDirectory (recursive walk with the overwrite prompt),               *)
(* promptOverwrite, detectPackageManager, installDependency,               *)
(* updatePackageJson and main.  Every await of the source is a step.       *)
(***************************************************************************)
EXTENDS Integers, Sequences, FiniteSets, TLC

\* Depth of the template tree that is walked (number of nested directories).
MaxDepth == 2

(***************************************************************************)
(* Paths are sequences of segments; path.join / dirname / relative.        *)
(***************************************************************************)
RECURSIVE Normalize(_)
Normalize(p) ==
    IF Len(p) = 0 THEN <<>>
    ELSE LET init == Normalize(SubSeq(p, 1, Len(p) - 1))
             last == p[Len(p)]
         IN  IF last = "." THEN init
             ELSE IF last = ".." /\ Len(init) > 0 /\ init[Len(init)] # ".."
                  THEN SubSeq(init, 1, Len(init) - 1)
                  ELSE Append(init, last)

join(a, b) == Normalize(a \o b)

dirname(p) == IF Len(p) = 0 THEN <<>> ELSE SubSeq(p, 1, Len(p) - 1)

RECURSIVE CommonPrefixLen(_, _)
CommonPrefixLen(a, b) ==
    IF Len(a) = 0 \/ Len(b) = 0 \/ a[1] # b[1] THEN 0
    ELSE 1 + CommonPrefixLen(Tail(a), Tail(b))

\* Faulty variant of relative: the path relative to the directory being listed.
relative_basename(from, to) == IF Len(to) = 0 THEN <<>> ELSE <<to[Len(to)]>>

relative(from, to) ==
    LET k == CommonPrefixLen(from, to)
    IN  [j \in 1..(Len(from) - k) |-> ".."] \o SubSeq(to, k + 1, Len(to))

(***************************************************************************)
(* The environment: the template tree (read-only) and the target directory.*)
(***************************************************************************)
Dirname == <<"pkg", "src">>
TemplatesDir == join(Dirname, <<"..", "templates">>)
TargetDir == <<"cwd">>

DirNames == <<"sub", "deep", "inner", "core">>
FileNames == <<"a.txt", "b.txt", "d.txt", "e.txt", "f.txt">>
LastName == "z.txt"

SrcDir(k) == TemplatesDir \o SubSeq(DirNames, 1, k)
SrcDirs == {SrcDir(k) : k \in 0..MaxDepth}

DepthOf(p) == Len(p) - Len(TemplatesDir)

\* What readdir yields for directory p; dirsFirst is the listing order of the
\* file system.
Listing(p, dirsFirst) ==
    LET k == DepthOf(p)
        inner == IF k >= MaxDepth THEN <<FileNames[k + 1]>>
                 ELSE IF dirsFirst THEN <<DirNames[k + 1], FileNames[k + 1]>>
                 ELSE <<FileNames[k + 1], DirNames[k + 1]>>
    IN  IF k = 0 THEN Append(inner, LastName) ELSE inner

SrcFiles ==
    {Append(SrcDir(k), FileNames[k + 1]) : k \in 0..MaxDepth}
        \cup {Append(TemplatesDir, LastName)}

\* Where a template file belongs in the target: the same path below the root.
RelOf(file) == SubSeq(file, Len(TemplatesDir) + 1, Len(file))
DestOf(file) == TargetDir \o RelOf(file)
DestFiles == {DestOf(f) : f \in SrcFiles}

Prefixes(p) == {SubSeq(p, 1, n) : n \in 1..Len(p)}

(***************************************************************************)
(* promptOverwrite: answers are strings, modelled as character sequences.  *)
(***************************************************************************)
Answers ==
    { <<"y">>, <<"Y">>, <<"y", "e", "s">>, <<"Y", "E", "S">>,
      <<"a">>, <<"a", "l", "l">>, <<"A", "l", "l">>, <<"n">>, <<>>,
      <<"n", "o">>, <<"y", "a">>, <<" ", "y">> }

LowerChar(c) ==
    CASE c = "Y" -> "y" [] c = "E" -> "e" [] c = "S" -> "s"
      [] c = "A" -> "a" [] c = "L" -> "l" [] c = "N" -> "n" [] c = "O" -> "o"
      [] OTHER -> c

\* Faulty variant: the answer is compared as typed.
toLowerCase_asTyped(s) == s

toLowerCase(s) == [j \in 1..Len(s) |-> LowerChar(s[j])]

\* The value the answer callback resolves with: "all", true or false.
PromptResult(answer) ==
    LET lower == toLowerCase(answer)
    IN  IF lower = <<"a">> \/ lower = <<"a", "l", "l">> THEN "all"
        ELSE IF lower = <<"y">> \/ lower = <<"y", "e", "s">> THEN "true"
        ELSE "false"

(***************************************************************************)
(* copyDirectory: the decisions taken for one file.                        *)
(***************************************************************************)
\* Faulty variant: prompt for every file, whether or not the destination exists.
NeedsPrompt_always(accessOk, overwriteAll) == ~overwriteAll

\* Faulty variant: ignore the overwriteAll flag.
NeedsPrompt_noflag(accessOk, overwriteAll) == accessOk

\* Lines 80-81: the prompt is reached iff access resolved and !overwriteAll.
NeedsPrompt(accessOk, overwriteAll) == accessOk /\ ~overwriteAll

\* Faulty variant: a Yes answer sets the flag too.
FlagAfterResponse_yes(response, overwriteAll) ==
    IF response = "all" \/ response = "true" THEN TRUE ELSE overwriteAll

\* Lines 83-84: overwriteAll after the response.
FlagAfterResponse(response, overwriteAll) ==
    IF response = "all" THEN TRUE ELSE overwriteAll

\* Faulty variant: copy whatever the answer.
ShouldCopyAfterResponse_always(response) == TRUE

\* Lines 83-88: shouldCopy after the response.
ShouldCopyAfterResponse(response) ==
    IF response = "all" THEN TRUE ELSE response = "true"

\* Faulty variant: the recursive call's result is dropped.
FlagAfterRecursion_dropped(own, returned) == own

\* Lines 67-72: overwriteAll = await copyDirectory(...).
FlagAfterRecursion(own, returned) == returned

\* Faulty variant: the prompt names the entry, not its path from the walk root.
PromptArgument_entry(rel, entry) == <<entry>>

\* Line 82: promptOverwrite is called with relativePath.
PromptArgument(rel, entry) == rel

BoolStr(b) == IF b THEN "true" ELSE "false"

NoPath == <<>>

VARIABLES
    mode,        \* which function the run calls: "main" or a function's name
    dirsFirst,   \* the order readdir lists a directory in
    preExisting, \* destination paths that existed when the run started
    oldFiles,    \* destination paths holding their pre-existing content
    newFiles,    \* destination paths holding a copied template
    destDirs,    \* directories present under the target
    stack,       \* copyDirectory activation records, innermost last
    cpc,         \* position of the innermost copyDirectory activation
    response,    \* what promptOverwrite resolved with ("none" if nothing)
    answer,      \* the line the answer callback received
    rl,          \* readline interfaces: sequence of "open" / "closed"
    ppc,         \* promptOverwrite: "idle", "question", "resolved", "rejected"
    trace,       \* calls made so far, in order
    copyResult,  \* what the top-level copyDirectory settled with
    mpc,         \* main: "idle", "start", "copy", "detect", "install",
                 \* "patch", "done", "exit1"
    exitStatus,  \* <<>> while the process runs, then <<its exit status>>
    log,         \* calls made outside the walk, in order
    dpc,         \* detectPackageManager: "idle", "pnpm", "yarn", "done"
    lockFiles,   \* marker files present in the target directory
    packageManager,  \* what detectPackageManager returned ("" before)
    installState,    \* the promise installDependency returned
    childEvents,     \* events the child process has emitted, in order
    upc,         \* updatePackageJson: "idle", "read", "write", "done"
    updateState, \* the promise updatePackageJson returned
    pkgFile,     \* package.json in the target directory
    content,     \* updatePackageJson: the text readFile resolved with
    packageJson  \* updatePackageJson's parsed document

copyVars ==
    <<dirsFirst, preExisting, oldFiles, newFiles, destDirs, stack, cpc, response, answer,
      rl, ppc, trace, copyResult>>

mainVars == <<mpc, exitStatus, log>>
detectVars == <<dpc, lockFiles, packageManager>>
installVars == <<installState, childEvents>>
updateVars == <<upc, updateState, pkgFile, content, packageJson>>

vars == <<mode, copyVars, mainVars, detectVars, installVars, updateVars>>

(***************************************************************************)
(* Values: promises, exit codes, JSON documents.                           *)
(***************************************************************************)
Promise(status, error) == [status |-> status, error |-> error]
NotCalled == Promise("idle", <<>>)
Pending == Promise("pending", <<>>)
Resolved == Promise("resolved", <<>>)
Rejected(error) == Promise("rejected", error)

\* Faulty variant: a promise that can be settled again.
Settle_again(promise, outcome) == outcome

\* resolve / reject of a promise: only the first call has an effect.
Settle(promise, outcome) ==
    IF promise.status = "pending" THEN outcome ELSE promise

\* The code argument of the child's "exit" event: a number, or null when a
\* signal ended the child.
Code(n) == [null |-> FALSE, n |-> n]
NullCode == [null |-> TRUE, n |-> 0]
ExitCodes == {Code(0), Code(1), Code(2), Code(127), NullCode}
LaunchErrors == {<<"spawn", "ENOENT">>, <<"spawn", "EACCES">>}

\* `${code}` in the template literal.
CodeText(code) == IF code.null THEN "null" ELSE ToString(code.n)

\* A call made outside the walk: the function, its arguments, how it ended.
Call(op, args, outcome) == [op |-> op, args |-> args, outcome |-> outcome]

\* JSON values.  An object is a sequence of members in property order.
Val(t, s, m) == [t |-> t, s |-> s, m |-> m]
Str(s) == Val("string", s, <<>>)
Num(s) == Val("number", s, <<>>)
Null == Val("null", "", <<>>)
Undefined == Val("undefined", "", <<>>)
Obj(m) == Val("object", "", m)
Arr == Val("array", "", <<>>)
Member(k, v) == [k |-> k, v |-> v]

\* The text of a file: whether it is JSON at all, its layout, and the value
\* it denotes with the members in the order they are written.
Text(valid, indent, newline, value) ==
    [valid |-> valid, indent |-> indent, newline |-> newline, value |-> value]
File(exists, text) == [exists |-> exists, text |-> text]
NoText == Text(FALSE, 0, FALSE, Undefined)

IdleMain == mpc = "idle" /\ exitStatus = <<>> /\ log = <<>>
IdleDetect == dpc = "idle" /\ lockFiles = {} /\ packageManager = ""
IdleInstall == installState = NotCalled /\ childEvents = <<>>
IdleUpdate ==
    /\ upc = "idle"
    /\ updateState = NotCalled
    /\ pkgFile = File(FALSE, NoText)
    /\ content = NoText
    /\ packageJson = Undefined

Top == stack[Len(stack)]

\* One call, as recorded in trace: the function called, its path argument,
\* the source file being processed (NoPath outside the loop body), the
\* caller's overwriteAll at the call, and how the call ended.
Ev(op, path, file, arg) ==
    [op |-> op, path |-> path, file |-> file,
     flag |-> IF Len(stack) = 0 THEN FALSE ELSE Top.overwriteAll, arg |-> arg]

Frame(src, dest, baseSrc, overwriteAll) ==
    [src |-> src, dest |-> dest, baseSrc |-> baseSrc,
     overwriteAll |-> overwriteAll, entries |-> <<>>, i |-> 1]

SetTop(f) == [stack EXCEPT ![Len(stack)] = f]

\* Locals of the loop body for the current entry (lines 63, 74-76).
srcPath == join(Top.src, <<Top.entries[Top.i]>>)
relativePath == relative(Top.baseSrc, srcPath)
destPath == join(Top.dest, relativePath)
destDir == dirname(destPath)

Exists(p) == p \in oldFiles \cup newFiles

\* The destination trees a run can start from: any subset of the template's
\* files is already there, with the directories that hold them.
InitCopyEnv(candidates) ==
    /\ dirsFirst \in BOOLEAN
    /\ oldFiles \in SUBSET candidates
    /\ preExisting = oldFiles
    /\ newFiles = {}
    /\ destDirs = {TargetDir} \cup UNION {Prefixes(dirname(p)) : p \in oldFiles}
    /\ response = "none"
    /\ answer = <<>>
    /\ rl = <<>>
    /\ ppc = "idle"
    /\ trace = <<>>
    /\ copyResult = "none"

\* copyDirectory(src, dest, baseSrc, overwriteAll) is entered.
CallCopyDirectory(src, dest, baseSrc, overwriteAll) ==
    /\ stack' = Append(stack, Frame(src, dest, baseSrc, overwriteAll))
    /\ cpc' = "readdir"

\* Faulty variant: the activation swallows the rejection and goes on with
\* its next entry.
Unwind_skipEntry(activations) ==
    [activations EXCEPT ![Len(activations)] =
        [activations[Len(activations)] EXCEPT
            !.i = activations[Len(activations)].i + 1]]

\* The activations left after an awaited readdir, stat, mkdir or copyFile
\* rejected: lines 60, 64, 95 and 96 are outside the try block, and so is
\* the awaited recursive call (67-72), so every activation is abandoned.
Unwind(activations) == <<>>

\* An awaited call rejected: once no activation is left the top-level
\* promise rejects.
Throw(op, path, file) ==
    /\ stack' = Unwind(stack)
    /\ cpc' = IF stack' = <<>> THEN "failed" ELSE "loop"
    /\ copyResult' = IF stack' = <<>> THEN "error" ELSE copyResult
    /\ trace' = Append(trace, Ev(op, path, file, "error"))

\* Line 60: const entries = await readdir(src).
Readdir ==
    /\ cpc = "readdir"
    /\ \/ /\ stack' = SetTop([Top EXCEPT !.entries = Listing(Top.src, dirsFirst)])
          /\ cpc' = "loop"
          /\ trace' = Append(trace, Ev("readdir", Top.src, NoPath, "ok"))
          /\ UNCHANGED copyResult
       \/ Throw("readdir", Top.src, NoPath)
    /\ UNCHANGED <<mainVars, detectVars, installVars, updateVars>>
    /\ UNCHANGED <<mode, dirsFirst, preExisting, oldFiles, newFiles, destDirs, response,
                   answer, rl, ppc>>

\* Lines 62-72: the next entry is stat'ed; a directory is recursed into.
Stat ==
    /\ cpc = "loop"
    /\ Top.i <= Len(Top.entries)
    /\ \/ /\ srcPath \in SrcDirs
          /\ CallCopyDirectory(srcPath, Top.dest, Top.baseSrc, Top.overwriteAll)
          /\ trace' = Append(trace, Ev("stat", srcPath, NoPath, "dir"))
          /\ UNCHANGED copyResult
       \/ /\ srcPath \notin SrcDirs
          /\ cpc' = "access"
          /\ trace' = Append(trace, Ev("stat", srcPath, srcPath, "file"))
          /\ UNCHANGED <<stack, copyResult>>
       \/ Throw("stat", srcPath, NoPath)
    /\ UNCHANGED <<mainVars, detectVars, installVars, updateVars>>
    /\ UNCHANGED <<mode, dirsFirst, preExisting, oldFiles, newFiles, destDirs, response,
                   answer, rl, ppc>>

\* Faulty variant: only "no such file" is caught.
AccessCaught_onlyAbsent(outcome) == outcome = "ENOENT"

\* Lines 90-92: the catch clause names no error, so a rejection of access
\* is caught whatever its cause.
AccessCaught(outcome) == TRUE

\* Lines 78-81 and 90-92: await access(destPath).  It resolves only for a
\* path that exists; it rejects with ENOENT for an absent one, and may reject
\* for another cause (EACCES) whether or not the file is there.  Every
\* rejection is caught and leaves shouldCopy true.
Access ==
    /\ cpc = "access"
    /\ \E outcome \in {"ok", "ENOENT", "EACCES"} :
          /\ outcome = "ok" => Exists(destPath)
          /\ outcome = "ENOENT" => ~Exists(destPath)
          /\ IF outcome # "ok" /\ ~AccessCaught(outcome)
             THEN Throw("access", destPath, srcPath)
             ELSE /\ trace' = Append(trace, Ev("access", destPath, srcPath, outcome))
                  /\ cpc' = IF NeedsPrompt(outcome = "ok", Top.overwriteAll)
                            THEN "prompt" ELSE "mkdir"
                  /\ UNCHANGED <<stack, copyResult>>
    /\ UNCHANGED <<mainVars, detectVars, installVars, updateVars>>
    /\ UNCHANGED <<mode, dirsFirst, preExisting, oldFiles, newFiles, destDirs,
                   response, answer, rl, ppc>>

\* promptOverwrite(filePath), lines 37-56 up to the pending question:
\* createInterface, then rl.question inside the promise executor.  If
\* createInterface throws no interface exists; if rl.question throws the
\* promise rejects and nothing has closed the interface.
PromptOverwrite(filePath, file) ==
    /\ ppc = "idle"
    /\ trace' = Append(trace, Ev("promptOverwrite", filePath, file, "called"))
    /\ \/ /\ rl' = Append(rl, "open")
          /\ ppc' = "question"
       \/ /\ rl' = Append(rl, "open")
          /\ ppc' = "rejected"
       \/ /\ rl' = rl
          /\ ppc' = "rejected"
    /\ UNCHANGED <<response, answer>>

\* Lines 46-54: the answer callback: rl.close(), then resolve.
AnswerCallback ==
    /\ ppc = "question"
    /\ \E a \in Answers :
          /\ answer' = a
          /\ response' = PromptResult(a)
    /\ rl' = [rl EXCEPT ![Len(rl)] = "closed"]
    /\ ppc' = "resolved"
    /\ UNCHANGED <<mainVars, detectVars, installVars, updateVars>>
    /\ UNCHANGED <<mode, dirsFirst, preExisting, oldFiles, newFiles, destDirs, stack, cpc,
                   trace, copyResult>>

\* Line 82: const response = await promptOverwrite(relativePath).
CopyPrompt ==
    /\ cpc = "prompt"
    /\ PromptOverwrite(PromptArgument(relativePath, Top.entries[Top.i]), srcPath)
    /\ cpc' = "awaitPrompt"
    /\ UNCHANGED <<mainVars, detectVars, installVars, updateVars>>
    /\ UNCHANGED <<mode, dirsFirst, preExisting, oldFiles, newFiles, destDirs, stack,
                   copyResult>>

\* Faulty variant: the loop passes over the entry that follows.
NextEntry_skip(f) == SetTop([f EXCEPT !.i = f.i + 2])

\* The entry is finished: the loop moves to the next one.
NextEntry(f) == SetTop([f EXCEPT !.i = f.i + 1])

\* Lines 83-89 and 94: the response decides overwriteAll and shouldCopy.
AfterPrompt ==
    /\ cpc = "awaitPrompt"
    /\ ppc = "resolved"
    /\ LET f == [Top EXCEPT !.overwriteAll =
                     FlagAfterResponse(response, Top.overwriteAll)]
       IN  IF ShouldCopyAfterResponse(response)
           THEN /\ stack' = SetTop(f)
                /\ cpc' = "mkdir"
           ELSE /\ stack' = NextEntry(f)
                /\ cpc' = "loop"
    /\ trace' = Append(trace, Ev("response", relativePath, srcPath, response))
    /\ ppc' = "idle"
    /\ response' = "none"
    /\ answer' = <<>>
    /\ UNCHANGED <<mainVars, detectVars, installVars, updateVars>>
    /\ UNCHANGED <<mode, dirsFirst, preExisting, oldFiles, newFiles, destDirs, rl,
                   copyResult>>

\* Lines 90-92: promptOverwrite rejected inside the try block; the catch
\* meant for access swallows it, and shouldCopy is still true.
PromptRejected ==
    /\ cpc = "awaitPrompt"
    /\ ppc = "rejected"
    /\ cpc' = "mkdir"
    /\ ppc' = "idle"
    /\ trace' = Append(trace, Ev("response", relativePath, srcPath, "rejected"))
    /\ UNCHANGED <<mainVars, detectVars, installVars, updateVars>>
    /\ UNCHANGED <<mode, dirsFirst, preExisting, oldFiles, newFiles, destDirs, stack,
                   response, answer, rl, copyResult>>

\* Line 95: await mkdir(destDir, { recursive: true }).
Mkdir ==
    /\ cpc = "mkdir"
    /\ \/ /\ destDirs' = destDirs \cup Prefixes(destDir)
          /\ cpc' = "copyFile"
          /\ trace' = Append(trace, Ev("mkdir", destDir, srcPath, "ok"))
          /\ UNCHANGED <<stack, copyResult>>
       \/ /\ Throw("mkdir", destDir, srcPath)
          /\ UNCHANGED destDirs
    /\ UNCHANGED <<mainVars, detectVars, installVars, updateVars>>
    /\ UNCHANGED <<mode, dirsFirst, preExisting, oldFiles, newFiles, response, answer, rl,
                   ppc>>

\* Line 96: await copyFile(srcPath, destPath).
CopyFile ==
    /\ cpc = "copyFile"
    /\ \/ /\ oldFiles' = oldFiles \ {destPath}
          /\ newFiles' = newFiles \cup {destPath}
          /\ stack' = NextEntry(Top)
          /\ cpc' = "loop"
          /\ trace' = Append(trace, Ev("copyFile", destPath, srcPath, "ok"))
          /\ UNCHANGED copyResult
       \/ /\ Throw("copyFile", destPath, srcPath)
          /\ UNCHANGED <<oldFiles, newFiles>>
    /\ UNCHANGED <<mainVars, detectVars, installVars, updateVars>>
    /\ UNCHANGED <<mode, dirsFirst, preExisting, destDirs, response, answer, rl, ppc>>

\* Line 101: return overwriteAll, to the awaiting recursive call (lines
\* 67-72) or to the top-level caller.
Return ==
    /\ cpc = "loop"
    /\ Top.i > Len(Top.entries)
    /\ IF Len(stack) = 1
       THEN /\ stack' = <<>>
            /\ cpc' = "done"
            /\ copyResult' = BoolStr(Top.overwriteAll)
       ELSE /\ LET caller == stack[Len(stack) - 1]
                   f == [caller EXCEPT
                            !.overwriteAll =
                                FlagAfterRecursion(caller.overwriteAll,
                                                   Top.overwriteAll),
                            !.i = caller.i + 1]
               IN  stack' = Append(SubSeq(stack, 1, Len(stack) - 2), f)
            /\ cpc' = "loop"
            /\ UNCHANGED copyResult
    /\ trace' = Append(trace, Ev("return", Top.src, NoPath, BoolStr(Top.overwriteAll)))
    /\ UNCHANGED <<mainVars, detectVars, installVars, updateVars>>
    /\ UNCHANGED <<mode, dirsFirst, preExisting, oldFiles, newFiles, destDirs, response,
                   answer, rl, ppc>>

CopyStep ==
    \/ Readdir \/ Stat \/ Access \/ CopyPrompt \/ AnswerCallback
    \/ AfterPrompt \/ PromptRejected \/ Mkdir \/ CopyFile \/ Return

(***************************************************************************)
(* SpecCopy: copyDirectory called on its own, as its unit tests call it,   *)
(* with either value of the overwriteAll argument.                         *)
(***************************************************************************)
InitCopy ==
    /\ mode = "copyDirectory"
    /\ InitCopyEnv(DestFiles)
    /\ \E flag \in BOOLEAN :
          stack = <<Frame(TemplatesDir, TargetDir, TemplatesDir, flag)>>
    /\ cpc = "readdir"
    /\ IdleMain /\ IdleDetect /\ IdleInstall /\ IdleUpdate

NextCopy == CopyStep

SpecCopy == InitCopy /\ [][NextCopy]_vars


(***************************************************************************)
(* detectPackageManager                                                    *)
(***************************************************************************)
\* Faulty variant: the first check looks for the wrong marker.
PnpmLock_yarn == "yarn.lock"

PnpmLock == "pnpm-lock.yaml"
YarnLock == "yarn.lock"

\* access(join(targetDir, marker)): resolves only if the marker is there,
\* rejects with ENOENT if it is not, and may reject for another cause.
AccessMarker(marker, outcome) ==
    /\ outcome \in {"ok", "ENOENT", "EACCES"}
    /\ outcome = "ok" => marker \in lockFiles
    /\ outcome = "ENOENT" => marker \notin lockFiles
    /\ log' = Append(log, Call("access", join(TargetDir, <<marker>>), outcome))

CallDetectPackageManager == dpc' = "pnpm"

\* Lines 105-110.
DetectPnpm ==
    /\ dpc = "pnpm"
    /\ \E outcome \in {"ok", "ENOENT", "EACCES"} :
          /\ AccessMarker(PnpmLock, outcome)
          /\ IF outcome = "ok"
             THEN packageManager' = "pnpm" /\ dpc' = "done"
             ELSE packageManager' = packageManager /\ dpc' = "yarn"
    /\ UNCHANGED <<mode, copyVars, mpc, exitStatus, lockFiles, installVars,
                   updateVars>>

\* Faulty variant: the yarn marker is looked for but never wins.
YarnResult_ignored(outcome) == "npm"

\* Lines 112-119: "yarn" if the second check resolved, else the default.
YarnResult(outcome) == IF outcome = "ok" THEN "yarn" ELSE "npm"

\* Lines 112-119.
DetectYarn ==
    /\ dpc = "yarn"
    /\ \E outcome \in {"ok", "ENOENT", "EACCES"} :
          /\ AccessMarker(YarnLock, outcome)
          /\ packageManager' = YarnResult(outcome)
    /\ dpc' = "done"
    /\ UNCHANGED <<mode, copyVars, mpc, exitStatus, lockFiles, installVars,
                   updateVars>>

(***************************************************************************)
(* installDependency                                                       *)
(***************************************************************************)
PackageManagers == {"npm", "yarn", "pnpm"}

\* Faulty variant: every package manager is given npm's arguments.
commands_npmSyntax(packageManager_, packageName) ==
    <<packageManager_, "install", "--save-dev", packageName>>

\* Lines 123-127.
commands(packageManager_, packageName) ==
    CASE packageManager_ = "npm" -> <<"npm", "install", "--save-dev", packageName>>
      [] packageManager_ = "yarn" -> <<"yarn", "add", "--dev", packageName>>
      [] packageManager_ = "pnpm" -> <<"pnpm", "add", "--save-dev", packageName>>

\* Lines 129-135: the promise is created, the child is spawned and the two
\* handlers are registered.
CallInstallDependency(packageManager_, packageName) ==
    /\ installState = NotCalled
    /\ LET argv == commands(packageManager_, packageName)
       IN  log' = log \o
              << Call("console.log",
                      <<"Installing ", packageName, " with ", packageManager_, "...">>,
                      "ok"),
                 Call("spawn", argv, "inherit") >>
    /\ installState' = Pending
    /\ childEvents' = <<>>

ChildEvent(name, code, error) == [name |-> name, code |-> code, error |-> error]
Emitted(name) == \E k \in 1..Len(childEvents) : childEvents[k].name = name

\* Faulty variant: every code but null counts as success.
ExitOutcome_notnull(code) ==
    IF ~code.null THEN Resolved
    ELSE Rejected(<<"Installation failed with code ", CodeText(code)>>)

\* Faulty variant: the message does not name the code.
ExitOutcome_nocode(code) ==
    IF ~code.null /\ code.n = 0 THEN Resolved
    ELSE Rejected(<<"Installation failed">>)

\* Lines 137-141: what the exit handler settles the promise with.
ExitOutcome(code) ==
    IF ~code.null /\ code.n = 0 THEN Resolved
    ELSE Rejected(<<"Installation failed with code ", CodeText(code)>>)

\* Line 135: child.on("error", reject).
ChildError ==
    /\ installState # NotCalled
    /\ exitStatus = <<>>
    /\ ~Emitted("error")
    /\ \E e \in LaunchErrors :
          /\ childEvents' = Append(childEvents, ChildEvent("error", NullCode, e))
          /\ installState' = Settle(installState, Rejected(e))
    /\ UNCHANGED <<mode, copyVars, mainVars, detectVars, updateVars>>

\* Lines 136-142: child.on("exit", (code) => ...).
ChildExit ==
    /\ installState # NotCalled
    /\ exitStatus = <<>>
    /\ ~Emitted("exit")
    /\ \E c \in ExitCodes :
          /\ childEvents' = Append(childEvents, ChildEvent("exit", c, <<>>))
          /\ installState' = Settle(installState, ExitOutcome(c))
    /\ UNCHANGED <<mode, copyVars, mainVars, detectVars, updateVars>>

(***************************************************************************)
(* updatePackageJson                                                       *)
(***************************************************************************)
\* Property keys that are array indices: objects list these first, ascending.
IndexRange == 0..20
IsIndexKey(k) == \E n \in IndexRange : ToString(n) = k
IndexValue(k) == CHOOSE n \in IndexRange : ToString(n) = k

HasKey(m, k) == \E j \in 1..Len(m) : m[j].k = k
ObjGet(m, k) ==
    IF HasKey(m, k) THEN m[CHOOSE j \in 1..Len(m) : m[j].k = k].v ELSE Undefined

\* Where a new key goes in an object's property order.
InsertAt(m, k) ==
    IF IsIndexKey(k)
    THEN 1 + Cardinality({j \in 1..Len(m) :
                 IsIndexKey(m[j].k) /\ IndexValue(m[j].k) < IndexValue(k)})
    ELSE Len(m) + 1

\* Faulty variant: an assigned key always moves to the end.
ObjSet_moves(m, k, v) ==
    Append(SelectSeq(m, LAMBDA x : x.k # k), Member(k, v))

\* obj[k] = v: an existing key keeps its place, a new one is added.
ObjSet(m, k, v) ==
    IF HasKey(m, k)
    THEN [j \in 1..Len(m) |-> IF m[j].k = k THEN Member(k, v) ELSE m[j]]
    ELSE LET at == InsertAt(m, k)
         IN  SubSeq(m, 1, at - 1) \o <<Member(k, v)>> \o SubSeq(m, at, Len(m))

SetProp(v, k, x) == Val(v.t, v.s, ObjSet(v.m, k, x))

RECURSIVE ParseMembers(_)
RECURSIVE ParseValue(_)
\* JSON.parse of a value as written: members are defined in textual order.
ParseValue(v) == IF v.t = "object" THEN Obj(ParseMembers(v.m)) ELSE v
ParseMembers(m) ==
    IF Len(m) = 0 THEN <<>>
    ELSE LET last == m[Len(m)]
         IN  ObjSet(ParseMembers(SubSeq(m, 1, Len(m) - 1)), last.k,
                    ParseValue(last.v))

RECURSIVE StringifyValue(_)
\* JSON.stringify: an array's named properties are not written.
StringifyValue(v) ==
    IF v.t = "array" THEN Arr
    ELSE IF v.t = "object"
    THEN Obj([j \in 1..Len(v.m) |-> Member(v.m[j].k, StringifyValue(v.m[j].v))])
    ELSE v

\* JSON.stringify(packageJson, null, 2) + "\n"
Serialize(v) == Text(TRUE, 2, TRUE, StringifyValue(v))

Truthy(v) ==
    CASE v.t \in {"undefined", "null"} -> FALSE
      [] v.t = "string" -> v.s # ""
      [] v.t = "number" -> v.s # "0"
      [] v.t = "boolean" -> v.s = "true"
      [] OTHER -> TRUE

IsObjectLike(v) == v.t \in {"object", "array"}

FormatScript == Str("prettier --write .")
FormatCheckScript == Str("prettier --check .")

Threw == [threw |-> TRUE, doc |-> Undefined]
Patched(doc) == [threw |-> FALSE, doc |-> doc]

\* Lines 153-158 on the parsed document.  Reading a property of null and
\* creating a property on a primitive throw a TypeError (module code is
\* strict).
PatchDocument(pj) ==
    IF pj.t \in {"null", "undefined"} THEN Threw
    ELSE LET needInit == ~Truthy(ObjGet(pj.m, "scripts"))
         IN  IF needInit /\ ~IsObjectLike(pj) THEN Threw
             ELSE LET pj1 == IF needInit THEN SetProp(pj, "scripts", Obj(<<>>))
                             ELSE pj
                      sc == ObjGet(pj1.m, "scripts")
                  IN  IF ~IsObjectLike(sc) THEN Threw
                      ELSE Patched(
                             SetProp(pj1, "scripts",
                                SetProp(SetProp(sc, "format", FormatScript),
                                        "format:check", FormatCheckScript)))

PackageJsonPath == join(TargetDir, <<"package.json">>)

SkipMessage == <<"No package.json found, skipping script addition.">>
AddedMessage == <<"Added prettier scripts to package.json.">>

CallUpdatePackageJson ==
    /\ upc' = "read"
    /\ updateState' = Pending

\* Faulty variant: the catch block rethrows.
CatchOutcome_rethrow(error) == Rejected(error)

\* Lines 165-167: the catch block logs and swallows whatever was thrown in
\* the try block, so the function's promise resolves.
CatchOutcome(error) == Resolved

\* Lines 150-163: readFile, then JSON.parse, the patch and the writeFile
\* call; anything thrown goes to the catch block.
UpdateRead ==
    /\ upc = "read"
    /\ \E outcome \in {"ok", "ENOENT", "EACCES"} :
          /\ outcome = "ok" => pkgFile.exists
          /\ outcome = "ENOENT" => ~pkgFile.exists
          /\ LET read == Call("readFile", PackageJsonPath, outcome)
                 caught(e) ==
                    /\ log' = log \o <<read, Call("console.log", SkipMessage, "ok")>>
                    /\ upc' = "done"
                    /\ updateState' = CatchOutcome(e)
                    /\ UNCHANGED packageJson
             IN  IF outcome # "ok"
                 THEN caught(<<outcome>>) /\ UNCHANGED content
                 ELSE /\ content' = pkgFile.text
                      /\ IF ~pkgFile.text.valid THEN caught(<<"SyntaxError">>)
                         ELSE LET r == PatchDocument(ParseValue(pkgFile.text.value))
                              IN  IF r.threw THEN caught(<<"TypeError">>)
                                  ELSE /\ log' = Append(log, read)
                                       /\ packageJson' = r.doc
                                       /\ upc' = "write"
                                       /\ UNCHANGED updateState
    /\ UNCHANGED <<mode, copyVars, mpc, exitStatus, detectVars, installVars,
                   pkgFile>>

\* Lines 160-167: the awaited writeFile resolves or rejects.
UpdateWrite ==
    /\ upc = "write"
    /\ \/ /\ pkgFile' = File(TRUE, Serialize(packageJson))
          /\ log' = log \o << Call("writeFile", PackageJsonPath, "ok"),
                              Call("console.log", AddedMessage, "ok") >>
          /\ updateState' = Resolved
       \/ /\ UNCHANGED pkgFile
          /\ log' = log \o << Call("writeFile", PackageJsonPath, "error"),
                              Call("console.log", SkipMessage, "ok") >>
          /\ updateState' = CatchOutcome(<<"EACCES">>)
    /\ upc' = "done"
    /\ UNCHANGED <<mode, copyVars, mpc, exitStatus, detectVars, installVars,
                   content, packageJson>>

(***************************************************************************)
(* main                                                                    *)
(***************************************************************************)
PackageName == "prettier-plugin-tailwindcss"

\* Lines 24-29: main runs up to the await of copyDirectory.
MainStart ==
    /\ mpc = "start"
    /\ log' = Append(log, Call("console.log",
                               <<"Setting up project templates...">>, "ok"))
    /\ CallCopyDirectory(TemplatesDir, TargetDir, TemplatesDir, FALSE)
    /\ mpc' = "copy"
    /\ UNCHANGED <<mode, dirsFirst, preExisting, oldFiles, newFiles, destDirs,
                   response, answer, rl, ppc, trace, copyResult, exitStatus,
                   detectVars, installVars, updateVars>>

\* Faulty variant: main goes on after copyDirectory whether it resolved or rejected.
CopyCompleted_orFailed == cpc \in {"done", "failed"}

\* Line 29: await copyDirectory(...) resumes main only if it resolved.
CopyCompleted == cpc = "done"

\* Lines 30-32: copyDirectory resolved.
MainAfterCopy ==
    /\ mpc = "copy"
    /\ CopyCompleted
    /\ log' = Append(log, Call("console.log",
                               <<"Templates added successfully!">>, "ok"))
    /\ CallDetectPackageManager
    /\ mpc' = "detect"
    /\ UNCHANGED <<mode, copyVars, exitStatus, lockFiles, packageManager,
                   installVars, updateVars>>

\* Line 33: detectPackageManager resolved.
MainAfterDetect ==
    /\ mpc = "detect"
    /\ dpc = "done"
    /\ CallInstallDependency(packageManager, PackageName)
    /\ mpc' = "install"
    /\ UNCHANGED <<mode, copyVars, exitStatus, detectVars, updateVars>>

\* Line 34: installDependency resolved.
MainAfterInstall ==
    /\ mpc = "install"
    /\ installState.status = "resolved"
    /\ CallUpdatePackageJson
    /\ mpc' = "patch"
    /\ UNCHANGED <<mode, copyVars, exitStatus, log, detectVars, installVars,
                   pkgFile, content, packageJson>>

\* Line 35: updatePackageJson resolved and main returns; the process ends
\* with status 0.
MainAfterUpdate ==
    /\ mpc = "patch"
    /\ updateState.status = "resolved"
    /\ mpc' = "done"
    /\ exitStatus' = <<0>>
    /\ UNCHANGED <<mode, copyVars, log, detectVars, installVars, updateVars>>

\* The error main's promise rejects with, if the awaited step rejected.
MainError ==
    IF mpc = "copy" /\ cpc = "failed" THEN <<trace[Len(trace)].op>>
    ELSE IF mpc = "install" /\ installState.status = "rejected"
    THEN installState.error
    ELSE IF mpc = "patch" /\ updateState.status = "rejected"
    THEN updateState.error
    ELSE <<>>

\* Lines 19-22: main().catch: console.error and process.exit(1).
MainCatch ==
    /\ MainError # <<>>
    /\ log' = Append(log, Call("console.error", <<"Error:">> \o MainError, "ok"))
    /\ exitStatus' = <<1>>
    /\ mpc' = "exit1"
    /\ UNCHANGED <<mode, copyVars, detectVars, installVars, updateVars>>

(***************************************************************************)
(* Spec: the CLI run.  The target directory may already hold the first     *)
(* template file, either marker file, and a package.json.                  *)
(***************************************************************************)
ScenarioC ==
    Obj(<< Member("name", Str("p")),
           Member("scripts", Obj(<<Member("test", Str("x"))>>)) >>)

MainManifests ==
    { File(FALSE, NoText),
      File(TRUE, Text(FALSE, 0, FALSE, Undefined)),
      File(TRUE, Text(TRUE, 0, FALSE, ScenarioC)) }

InitMain ==
    /\ mode = "main"
    /\ InitCopyEnv({DestOf(Append(TemplatesDir, FileNames[1]))})
    /\ stack = <<>>
    /\ cpc = "idle"
    /\ mpc = "start"
    /\ exitStatus = <<>>
    /\ log = <<>>
    /\ dpc = "idle"
    /\ lockFiles \in SUBSET {PnpmLock, YarnLock}
    /\ packageManager = ""
    /\ IdleInstall
    /\ upc = "idle"
    /\ updateState = NotCalled
    /\ pkgFile \in MainManifests
    /\ content = NoText
    /\ packageJson = Undefined

NextMain ==
    \/ MainStart \/ MainAfterCopy \/ MainAfterDetect \/ MainAfterInstall
    \/ MainAfterUpdate \/ MainCatch
    \/ Readdir \/ Stat \/ Access \/ CopyPrompt \/ AnswerCallback
    \/ AfterPrompt \/ PromptRejected \/ Mkdir \/ CopyFile \/ Return
    \/ DetectPnpm \/ DetectYarn
    \/ ChildError \/ ChildExit
    \/ UpdateRead \/ UpdateWrite

Spec == InitMain /\ [][NextMain]_vars

(***************************************************************************)
(* SpecInstall: installDependency called on its own.                       *)
(***************************************************************************)
PackageNames == {PackageName, "test-package"}

InitInstall ==
    /\ mode = "installDependency"
    /\ InitCopyEnv({})
    /\ stack = <<>>
    /\ cpc = "idle"
    /\ IdleMain /\ IdleDetect /\ IdleInstall /\ IdleUpdate

InstallCalled ==
    /\ mode = "installDependency"
    /\ \E pm \in PackageManagers, name \in PackageNames :
          CallInstallDependency(pm, name)
    /\ UNCHANGED <<mode, copyVars, mpc, exitStatus, detectVars, updateVars>>

NextInstall == InstallCalled \/ ChildError \/ ChildExit

SpecInstall == InitInstall /\ [][NextInstall]_vars

(***************************************************************************)
(* SpecPatch: updatePackageJson called on its own, on a target directory   *)
(* whose package.json is absent, is not JSON, or holds one of the          *)
(* documents below in some layout.  A document is given as it is written   *)
(* in the file: members in text order, a repeated key written twice.       *)
(***************************************************************************)
PatchDocuments ==
    { Obj(<<Member("name", Str("p"))>>),
      ScenarioC,
      Obj(<< Member("name", Str("test-package")),
             Member("version", Str("1.0.0")),
             Member("scripts",
                Obj(<< Member("format", Str("old-formatter")),
                       Member("format:check", Str("old-checker")),
                       Member("test", Str("jest")) >>)) >>),
      Obj(<< Member("scripts",
                Obj(<< Member("test", Str("jest")),
                       Member("format:check", Str("old-checker")),
                       Member("build", Str("tsc")) >>)),
             Member("name", Str("p")),
             Member("dependencies", Obj(<<Member("lodash", Str("^4.0.0"))>>)),
             Member("keywords", Arr) >>),
      Obj(<< Member("b", Str("x")),
             Member("1", Str("one")),
             Member("scripts",
                Obj(<< Member("build", Str("tsc")),
                       Member("2", Str("two")),
                       Member("0", Str("zero")) >>)) >>),
      Obj(<< Member("name", Str("p")),
             Member("scripts", Obj(<<>>)),
             Member("name", Str("q")) >>),
      Obj(<<Member("name", Str("p")), Member("scripts", Null)>>),
      Obj(<<Member("name", Str("p")), Member("scripts", Str("x"))>>),
      Obj(<<Member("name", Str("p")), Member("scripts", Arr)>>),
      Null,
      Str("p"),
      Arr }

PatchManifests ==
    { File(FALSE, NoText), File(TRUE, Text(FALSE, 0, FALSE, Undefined)) }
    \cup { File(TRUE, Text(TRUE, indent, newline, doc)) :
              indent \in {0, 2, 4}, newline \in BOOLEAN, doc \in PatchDocuments }

InitPatch ==
    /\ mode = "updatePackageJson"
    /\ InitCopyEnv({})
    /\ stack = <<>>
    /\ cpc = "idle"
    /\ IdleMain /\ IdleDetect /\ IdleInstall
    /\ upc = "idle"
    /\ updateState = NotCalled
    /\ pkgFile \in PatchManifests
    /\ content = NoText
    /\ packageJson = Undefined

UpdateCalled ==
    /\ mode = "updatePackageJson"
    /\ upc = "idle"
    /\ CallUpdatePackageJson
    /\ UNCHANGED <<mode, copyVars, mainVars, detectVars, installVars,
                   pkgFile, content, packageJson>>

NextPatch == UpdateCalled \/ UpdateRead \/ UpdateWrite

SpecPatch == InitPatch /\ [][NextPatch]_vars

(***************************************************************************)
(* Properties of the walk, stated over the recorded calls.                 *)
(***************************************************************************)
Idx == 1..Len(trace)
Returned == copyResult \in {"true", "false"}
IsOp(k, op) == trace[k].op = op
PromptsFor(file) == {k \in Idx : IsOp(k, "promptOverwrite") /\ trace[k].file = file}
\* The existence check found the destination of the file processed at k.
FoundAt(k) == IsOp(k, "access") /\ trace[k].arg = "ok"
\* The copy of the file processed at k goes ahead: mkdir, then copyFile, and
\* a copyFile that succeeds leaves the template in the destination.
CopyFollows(k) ==
    /\ k < Len(trace) =>
          /\ IsOp(k + 1, "mkdir")
          /\ trace[k + 1].file = trace[k].file
          /\ (trace[k + 1].arg = "ok" /\ k + 1 < Len(trace)) =>
                /\ IsOp(k + 2, "copyFile")
                /\ trace[k + 2].file = trace[k].file
                /\ trace[k + 2].path = DestOf(trace[k].file)
                /\ trace[k + 2].arg = "ok" => DestOf(trace[k].file) \in newFiles
\* overwriteAll is true from call k on: it was true when call k was made, or
\* call k is the prompt answering "all".
FlagSetAt(k) ==
    trace[k].flag \/ (IsOp(k, "response") /\ trace[k].arg = "all")

\* C1: once overwriteAll is true in a walk (passed in, or set by an "all"
\* answer), every later call of the walk, in whatever directory, is made with
\* overwriteAll true, promptOverwrite is never called again, every destination
\* found to exist afterwards is copied, and the top-level call returns true.
C1_OverwriteAllSticky ==
    /\ \A k \in Idx : FlagSetAt(k) =>
          \A m \in Idx : m > k =>
              /\ trace[m].flag
              /\ ~IsOp(m, "promptOverwrite")
              /\ FoundAt(m) => CopyFollows(m)
    /\ (Returned /\ \E k \in Idx : FlagSetAt(k)) => copyResult = "true"

\* C1 witness: "all" was answered, a pre-existing file in a subdirectory was
\* later overwritten without a prompt, and the walk returned true.
C1_Witness ==
    /\ copyResult = "true"
    /\ \E k, m \in Idx :
          /\ k < m
          /\ IsOp(k, "response") /\ trace[k].arg = "all"
          /\ FoundAt(m)
          /\ Len(RelOf(trace[m].file)) > 1
          /\ PromptsFor(trace[m].file) = {}
          /\ DestOf(trace[m].file) \in newFiles

\* C2: a file whose destination is found to exist while overwriteAll is false
\* is prompted for exactly once, with its path relative to the walk root.
C2_PromptOncePerConflict ==
    /\ \A k \in Idx : (FoundAt(k) /\ ~trace[k].flag /\ k < Len(trace)) =>
          /\ IsOp(k + 1, "promptOverwrite")
          /\ trace[k + 1].file = trace[k].file
          /\ trace[k + 1].path = RelOf(trace[k].file)
          /\ Cardinality(PromptsFor(trace[k].file)) = 1
    /\ \A f \in SrcFiles : Cardinality(PromptsFor(f)) <= 1

\* C2 witness: a conflict in a nested directory was prompted for, and the
\* walk returned.
C2_Witness ==
    /\ Returned
    /\ \E k \in Idx :
          /\ IsOp(k, "promptOverwrite")
          /\ Len(trace[k].path) > 2
          /\ trace[k].path = RelOf(trace[k].file)

\* C3: a file whose destination does not exist is copied and never prompted
\* for, whatever overwriteAll is; a walk into an empty destination issues no
\* prompt and copies every file.
C3_AbsentCopiedWithoutPrompt ==
    /\ \A k \in Idx : IsOp(k, "promptOverwrite") =>
          DestOf(trace[k].file) \in preExisting
    /\ \A k \in Idx :
          (IsOp(k, "access") /\ DestOf(trace[k].file) \notin preExisting) =>
              /\ trace[k].path = DestOf(trace[k].file)
              /\ trace[k].arg # "ok"
              /\ CopyFollows(k)
    /\ (Returned /\ preExisting = {}) =>
          /\ \A k \in Idx : ~IsOp(k, "promptOverwrite")
          /\ newFiles = DestFiles

\* C3 witness: an absent file was copied while overwriteAll was true and
\* another while it was false.
C3_Witness ==
    /\ Returned
    /\ \E k, m \in Idx :
          /\ IsOp(k, "copyFile") /\ trace[k].arg = "ok" /\ trace[k].flag
          /\ trace[k].path \notin preExisting
          /\ IsOp(m, "copyFile") /\ trace[m].arg = "ok" /\ ~trace[m].flag
          /\ trace[m].path \notin preExisting

\* C4: after a No answer there is neither mkdir nor copyFile for that file,
\* its destination keeps the old content, overwriteAll is unchanged and the
\* walk goes on with the next entry.
C4_NoSkipsTheFile ==
    \A k \in Idx : (IsOp(k, "response") /\ trace[k].arg = "false") =>
        /\ DestOf(trace[k].file) \in oldFiles
        /\ \A m \in Idx : trace[m].file = trace[k].file =>
              ~IsOp(m, "mkdir") /\ ~IsOp(m, "copyFile")
        /\ k < Len(trace) =>
              /\ trace[k + 1].op \in {"stat", "return"}
              /\ trace[k + 1].flag = trace[k].flag

\* C4 witness: No was answered for one file and a later entry was copied.
C4_Witness ==
    \E k, m \in Idx :
        /\ k < m
        /\ IsOp(k, "response") /\ trace[k].arg = "false"
        /\ IsOp(m, "copyFile") /\ trace[m].arg = "ok"

\* C5: after a Yes answer the file is copied and overwriteAll is still false;
\* the next destination found to exist is prompted for again, and a walk in
\* which answers were given but never "all" returns false.
C5_YesDoesNotSetFlag ==
    /\ \A k \in Idx : (IsOp(k, "response") /\ trace[k].arg = "true") =>
          /\ CopyFollows(k)
          /\ \A m \in Idx :
                (m > k /\ \A j \in k..m : ~FlagSetAt(j)) =>
                    /\ ~trace[m].flag
                    /\ (FoundAt(m) /\ m < Len(trace)) =>
                          IsOp(m + 1, "promptOverwrite")
          /\ k < Len(trace) => ~trace[k + 1].flag
    /\ ( /\ Returned
         /\ \E k \in Idx : IsOp(k, "response")
         /\ \A k \in Idx : IsOp(k, "response") => trace[k].arg # "all" )
       => copyResult = "false"

\* C5 witness: Yes for one file, then a prompt for a later one, and the walk
\* returned false.
C5_Witness ==
    /\ copyResult = "false"
    /\ \E k, m \in Idx :
          /\ k < m
          /\ IsOp(k, "response") /\ trace[k].arg = "true"
          /\ IsOp(m, "promptOverwrite")
          /\ DestOf(trace[k].file) \in newFiles

\* C6: a destination found to exist is overwritten only if the prompt for it
\* answered Yes or "all", or overwriteAll was already true when it was
\* visited; after a No or a failed prompt the old file is still there.
C6_OverwriteOnlyIfConfirmed ==
    \A k \in Idx : FoundAt(k) =>
        \/ DestOf(trace[k].file) \in oldFiles
        \/ trace[k].flag
        \/ \E m \in Idx :
              /\ IsOp(m, "response")
              /\ trace[m].file = trace[k].file
              /\ trace[m].arg \in {"true", "all"}

(***************************************************************************)
(* Properties of updatePackageJson, promptOverwrite, main and              *)
(* installDependency.                                                      *)
(***************************************************************************)
LogIdx == 1..Len(log)
WriteFailed ==
    \E k \in LogIdx : log[k].op = "writeFile" /\ log[k].outcome = "error"

\* C7: when package.json was read and parsed but writing it back fails, the
\* failure propagates out of updatePackageJson (its promise rejects) and the
\* run ends as a fatal error, not with status 0.
C7_WriteFailurePropagates ==
    WriteFailed =>
        /\ updateState.status = "rejected"
        /\ mpc # "done"
        /\ exitStatus # <<0>>

\* C8: whenever a call of promptOverwrite has settled, resolved or rejected,
\* every readline interface created so far has been closed.
C8_InterfaceClosedWhenSettled ==
    ppc \in {"resolved", "rejected"} =>
        \A j \in 1..Len(rl) : rl[j] = "closed"

StepFailed ==
    \/ cpc = "failed"
    \/ mpc = "install" /\ installState.status = "rejected"
    \/ mpc = "patch" /\ updateState.status = "rejected"

\* C9: main's steps start in the order copy, detect, install, patch, each only
\* after the one before resolved; once a step has failed no later step is
\* started, the only thing main can do is print the error and exit with
\* status 1, and the run never ends with status 0.
C9_StepsGatedInOrder ==
    /\ mpc = "start" => cpc = "idle"
    /\ cpc # "idle" => mpc # "start"
    /\ dpc # "idle" => cpc = "done" /\ copyResult \in {"true", "false"}
    /\ installState # NotCalled => dpc = "done" /\ cpc = "done"
    /\ upc # "idle" =>
          installState.status = "resolved" /\ dpc = "done" /\ cpc = "done"
    /\ mpc = "done" => updateState.status = "resolved" /\ exitStatus = <<0>>
    /\ cpc = "failed" =>
          dpc = "idle" /\ installState = NotCalled /\ upc = "idle"
    /\ (mpc \in {"install", "exit1"} /\ installState.status = "rejected") =>
          upc = "idle"
    /\ StepFailed =>
          /\ mpc \in {"copy", "install", "patch", "exit1"}
          /\ mpc # "exit1" => ENABLED MainCatch
          /\ exitStatus # <<0>>
    /\ mpc = "exit1" =>
          /\ exitStatus = <<1>>
          /\ log[Len(log)].op = "console.error"
          /\ log[Len(log)].args[1] = "Error:"
          /\ Len(log[Len(log)].args) > 1
    /\ exitStatus = <<1>> => mpc = "exit1"

\* C9 witness: a run that went through all four steps and ended normally.
C9_Witness ==
    /\ mpc = "done"
    /\ \E k \in LogIdx : log[k].op = "writeFile" /\ log[k].outcome = "ok"

\* The text of an exit code in a message.
ExpectedCodeText(code) ==
    IF code.null THEN "null"
    ELSE CASE code.n = 0 -> "0" [] code.n = 1 -> "1" [] code.n = 2 -> "2"
           [] code.n = 127 -> "127"

\* C10 as stated: installDependency resolves iff the child exits with code 0;
\* for any other exit code it is rejected with a message containing the code,
\* and after a launch error it is rejected with that error.
C10_ResolvesIffExitZero ==
    \A k \in 1..Len(childEvents) :
        LET e == childEvents[k]
        IN  /\ (e.name = "exit" /\ e.code = Code(0)) => installState = Resolved
            /\ (e.name = "exit" /\ e.code # Code(0)) =>
                  /\ installState.status = "rejected"
                  /\ installState.error[Len(installState.error)]
                        = ExpectedCodeText(e.code)
            /\ e.name = "error" => installState = Rejected(e.error)

\* C10 amended: the first event the child emits settles the promise.  It
\* resolves iff that event is an exit with code 0; it is rejected with a
\* message containing the code if that event is an exit with another code
\* (null included), and with the launch error if that event is "error".
C10_FirstEventSettles ==
    /\ childEvents = <<>> => installState \in {NotCalled, Pending}
    /\ childEvents # <<>> =>
          LET e == childEvents[1]
          IN  /\ (e.name = "exit" /\ e.code = Code(0)) => installState = Resolved
              /\ (e.name = "exit" /\ e.code # Code(0)) =>
                    /\ installState.status = "rejected"
                    /\ Len(installState.error) = 2
                    /\ installState.error[2] = ExpectedCodeText(e.code)
              /\ e.name = "error" => installState = Rejected(e.error)
              /\ installState.status = "resolved" =>
                    e.name = "exit" /\ e.code = Code(0)

\* C10 witness: the child was ended by a signal (code null) and the promise
\* is rejected with a message naming null.
C10_Witness ==
    /\ childEvents # <<>>
    /\ childEvents[1].name = "exit"
    /\ childEvents[1].code = NullCode
    /\ installState = Rejected(<<"Installation failed with code ", "null">>)

(***************************************************************************)
(* Properties of detectPackageManager.                                     *)
(***************************************************************************)
\* The existence checks detectPackageManager has made, in order.
MarkerChecks == SelectSeq(log, LAMBDA c : c.op = "access")
PnpmPath == <<"cwd", "pnpm-lock.yaml">>
YarnPath == <<"cwd", "yarn.lock">>
ChecksOf(path) ==
    {k \in 1..Len(MarkerChecks) : MarkerChecks[k].args = path}

\* C11: detectPackageManager returns "pnpm" when the pnpm-lock.yaml check
\* succeeds (whatever yarn.lock is), "yarn" when that check fails and the
\* yarn.lock check succeeds, and "npm" iff both checks fail; with checks that
\* fail only for absent files this is: pnpm whenever pnpm-lock.yaml exists,
\* yarn when only yarn.lock exists, npm iff neither exists.  A failed check
\* is never an error: the call goes on and the run does not end because of it.
C11_DetectResult ==
    /\ dpc = "done" =>
          LET ch == MarkerChecks
              ok(k) == k <= Len(ch) /\ ch[k].outcome = "ok"
          IN  /\ packageManager = "pnpm" <=> ok(1)
              /\ packageManager = "yarn" <=> (~ok(1) /\ ok(2))
              /\ packageManager = "npm" <=> (~ok(1) /\ ~ok(2))
              /\ (\A k \in 1..Len(ch) : ch[k].outcome # "EACCES") =>
                    /\ "pnpm-lock.yaml" \in lockFiles => packageManager = "pnpm"
                    /\ ("yarn.lock" \in lockFiles
                           /\ "pnpm-lock.yaml" \notin lockFiles) =>
                          packageManager = "yarn"
                    /\ packageManager = "npm" <=> lockFiles = {}
    /\ (Len(MarkerChecks) > 0 /\ MarkerChecks[Len(MarkerChecks)].outcome # "ok")
          => dpc \in {"yarn", "done"}
    /\ (mpc = "exit1" /\ dpc # "idle") => installState.status = "rejected"

\* C11 witness: both markers exist and pnpm was returned; the run went on.
C11_Witness ==
    /\ dpc = "done"
    /\ lockFiles = {"pnpm-lock.yaml", "yarn.lock"}
    /\ packageManager = "pnpm"
    /\ installState # NotCalled

\* C12 as stated: in every call the pnpm marker is checked before the yarn
\* marker and each of the two markers is checked exactly once.
C12_BothCheckedOnce ==
    dpc = "done" =>
        /\ Cardinality(ChecksOf(PnpmPath)) = 1
        /\ Cardinality(ChecksOf(YarnPath)) = 1
        /\ \A i \in ChecksOf(PnpmPath), j \in ChecksOf(YarnPath) : i < j

\* C12 amended: the pnpm marker is checked first and exactly once; the yarn
\* marker is checked after it, exactly once if the pnpm check failed and not
\* at all if the pnpm check succeeded.
C12_PnpmThenYarnUnlessFound ==
    /\ Len(MarkerChecks) <= 2
    /\ \A k \in 1..Len(MarkerChecks) :
          MarkerChecks[k].args = IF k = 1 THEN PnpmPath ELSE YarnPath
    /\ dpc # "idle" => Len(MarkerChecks) >= (IF dpc = "pnpm" THEN 0 ELSE 1)
    /\ dpc = "done" =>
          /\ Cardinality(ChecksOf(PnpmPath)) = 1
          /\ Cardinality(ChecksOf(YarnPath)) =
                (IF MarkerChecks[1].outcome = "ok" THEN 0 ELSE 1)

\* C12 witness: a call that checked pnpm-lock.yaml, then yarn.lock, and
\* returned.
C12_Witness ==
    /\ dpc = "done"
    /\ Len(MarkerChecks) = 2
    /\ MarkerChecks[1].args = PnpmPath
    /\ MarkerChecks[2].args = YarnPath

(***************************************************************************)
(* Properties of updatePackageJson, stated over the file read, the         *)
(* document parsed from it and the file written.                           *)
(***************************************************************************)
WriteCalls == SelectSeq(log, LAMBDA c : c.op = "writeFile")
PatchWritten ==
    /\ upc = "done"
    /\ \E k \in 1..Len(WriteCalls) : WriteCalls[k].outcome = "ok"
ParsedDocument == ParseValue(content.value)
WrittenDocument == pkgFile.text.value
Keys(m) == [j \in 1..Len(m) |-> m[j].k]
KeySet(m) == {m[j].k : j \in 1..Len(m)}
SameOrder(old, new) ==
    SelectSeq(Keys(new), LAMBDA k : k \in KeySet(old)) = Keys(old)
\* new holds old's keys with their values, in old's order, plus the added keys.
Kept(old, new, added) ==
    /\ KeySet(new) = KeySet(old) \cup added
    /\ \A k \in KeySet(old) \ added : ObjGet(new, k) = ObjGet(old, k)
    /\ SameOrder(old, new)
ScriptsOf(doc) == ObjGet(doc.m, "scripts")
MembersOf(v) == IF v.t = "object" THEN v.m ELSE <<>>
\* The document has keys, and its scripts entry is a map or absent.
Patchable(doc) ==
    doc.t = "object" /\ ScriptsOf(doc).t \in {"undefined", "object"}
\* Every key is written once and none is an array index.
PlainKeys(m) ==
    /\ Cardinality(KeySet(m)) = Len(m)
    /\ \A k \in KeySet(m) : ~IsIndexKey(k)

\* C13: when package.json parses to a document with keys whose scripts entry
\* is a map or absent, the written document has scripts.format =
\* "prettier --write ." and scripts["format:check"] = "prettier --check .",
\* every other top-level key and every other scripts key of the parsed
\* document keeps its value, and the keys of the parsed document keep their
\* relative order, at top level and inside scripts; where the file writes
\* every key once and none is an array index, that is the order of the keys
\* in the file that was read.
C13_PatchKeepsDocument ==
    (PatchWritten /\ Patchable(ParsedDocument)) =>
        LET old == ParsedDocument.m
            new == WrittenDocument.m
            oldScripts == MembersOf(ScriptsOf(ParsedDocument))
            newScripts == ScriptsOf(WrittenDocument)
            text == content.value.m
            textScripts == MembersOf(ObjGet(text, "scripts"))
        IN  /\ WrittenDocument.t = "object"
            /\ newScripts.t = "object"
            /\ ObjGet(newScripts.m, "format") = Str("prettier --write .")
            /\ ObjGet(newScripts.m, "format:check") = Str("prettier --check .")
            /\ Kept(old, new, {"scripts"})
            /\ Kept(oldScripts, newScripts.m, {"format", "format:check"})
            /\ PlainKeys(text) => SameOrder(text, new)
            /\ (PlainKeys(text) /\ PlainKeys(textScripts))
                  => SameOrder(textScripts, newScripts.m)

\* A document with scripts as its first key and format:check in the middle
\* of scripts has been patched and written.
C13_Witness ==
    /\ PatchWritten
    /\ Patchable(ParsedDocument)
    /\ Keys(ParsedDocument.m)[1] = "scripts"
    /\ Len(ParsedDocument.m) > 1
    /\ HasKey(ScriptsOf(ParsedDocument).m, "format:check")
    /\ ~HasKey(ScriptsOf(ParsedDocument).m, "format")
    /\ Keys(WrittenDocument.m)[1] = "scripts"

ReadCalls == SelectSeq(log, LAMBDA c : c.op = "readFile")
\* The last readFile rejected, or resolved with text that is not JSON.
ReadOrParseFailed ==
    /\ Len(ReadCalls) > 0
    /\ \/ ReadCalls[Len(ReadCalls)].outcome # "ok"
       \/ ~content.valid

\* C14: the step of updatePackageJson in which package.json cannot be read,
\* or is read and does not parse, ends the call: no writeFile is called,
\* the file is as it was, the last thing logged is the diagnostic message,
\* and the returned promise is resolved.
C14_UnreadableManifestSkipped ==
    [][ (upc = "read" /\ upc' # "read" /\ ReadOrParseFailed') =>
            /\ upc' = "done"
            /\ WriteCalls' = <<>>
            /\ pkgFile' = pkgFile
            /\ log'[Len(log')] = Call("console.log",
                  <<"No package.json found, skipping script addition.">>, "ok")
            /\ updateState' = Resolved ]_vars

\* updatePackageJson has finished on a package.json it read but could not
\* parse.
C14_Witness ==
    /\ upc = "done"
    /\ ReadOrParseFailed
    /\ ReadCalls[Len(ReadCalls)].outcome = "ok"
    /\ pkgFile.exists
    /\ ~pkgFile.text.valid

(***************************************************************************)
(* Failures in the walk.                                                   *)
(***************************************************************************)
FailedAt(k) ==
    /\ trace[k].op \in {"readdir", "stat", "mkdir", "copyFile"}
    /\ trace[k].arg = "error"
CopiedBefore(k) ==
    {trace[j].path : j \in {i \in 1..(k - 1) : IsOp(i, "copyFile") /\ trace[i].arg = "ok"}}

\* C15: once a readdir, stat, mkdir or copyFile of the walk has failed, the
\* top-level copyDirectory call has rejected, the failed call is the last
\* call of the walk (no entry is visited, no file copied, nothing retried
\* after it), and the destination holds exactly the files copied before the
\* failure, next to the old files that were not overwritten.
C15_FailureAbortsWalk ==
    \A k \in Idx :
        FailedAt(k) =>
            /\ copyResult = "error"
            /\ stack = <<>>
            /\ k = Len(trace)
            /\ newFiles = CopiedBefore(k)
            /\ oldFiles = preExisting \ CopiedBefore(k)

\* A copyFile in a subdirectory failed after another file had been copied.
C15_Witness ==
    /\ Len(trace) > 0
    /\ FailedAt(Len(trace))
    /\ trace[Len(trace)].op = "copyFile"
    /\ Len(trace[Len(trace)].path) > Len(TargetDir) + 1
    /\ newFiles # {}
    /\ copyResult = "error"

(***************************************************************************)
(* Where files are copied to.                                              *)
(***************************************************************************)
Parent(p) == SubSeq(p, 1, Len(p) - 1)

\* C16: every copyFile call copies a template file to its own path below the
\* walk root, re-rooted under dest (a file d directories down in the
\* templates lands d directories down in dest), and is immediately preceded
\* by a successful recursive mkdir of the parent directory of that
\* destination path, so that directory and all its ancestors exist.
C16_CopiedToRerootedPath ==
    /\ \A k \in Idx : IsOp(k, "copyFile") =>
          LET file == trace[k].file
              to == TargetDir \o SubSeq(file, Len(TemplatesDir) + 1, Len(file))
          IN  /\ file \in SrcFiles
              /\ trace[k].path = to
              /\ k > 1
              /\ IsOp(k - 1, "mkdir")
              /\ trace[k - 1].file = file
              /\ trace[k - 1].path = Parent(to)
              /\ trace[k - 1].arg = "ok"
              /\ Prefixes(Parent(to)) \subseteq destDirs
              /\ trace[k].arg = "ok" => to \in newFiles
    /\ newFiles \subseteq DestFiles

\* The file two directories down has been copied two directories down.
C16_Witness ==
    \E k \in Idx :
        /\ IsOp(k, "copyFile")
        /\ trace[k].arg = "ok"
        /\ trace[k].file = TemplatesDir \o <<"sub", "deep", "d.txt">>
        /\ trace[k].path = <<"cwd", "sub", "deep", "d.txt">>
        /\ <<"cwd", "sub", "deep">> \in destDirs
        /\ <<"cwd", "sub", "deep">> \notin UNION {Prefixes(Parent(q)) : q \in preExisting}

(***************************************************************************)
(* The answers promptOverwrite understands.                                *)
(***************************************************************************)
YesAnswers ==
    { <<"y">>, <<"Y">>, <<"y", "e", "s">>, <<"Y", "E", "S">> }
AllAnswers ==
    { <<"a">>, <<"a", "l", "l">>, <<"A", "l", "l">> }

\* C17: whenever promptOverwrite has resolved, it resolved with exactly one
\* of true, "all" and false, fixed by the answer without regard to case:
\* true for "y" and "yes", "all" for "a" and "all", false for every other
\* answer, the empty one included.
C17_AnswerMapping ==
    ppc = "resolved" =>
        /\ response \in {"true", "all", "false"}
        /\ response = "true" <=> answer \in YesAnswers
        /\ response = "all" <=> answer \in AllAnswers
        /\ response = "false" <=> answer \notin YesAnswers \cup AllAnswers

\* promptOverwrite resolved true for the answer "YES".
C17_Witness ==
    /\ ppc = "resolved"
    /\ answer = <<"Y", "E", "S">>
    /\ response = "true"

(***************************************************************************)
(* The child process installDependency starts.                             *)
(***************************************************************************)
SpawnCalls == SelectSeq(log, LAMBDA c : c.op = "spawn")
\* The arguments of the call, as the line logged at its start shows them.
InstallAnnounced == SelectSeq(log, LAMBDA c : c.op = "console.log" /\ c.args[1] = "Installing ")

\* C18: a call of installDependency spawns exactly one child process, with
\* stdio inherited and with the program and arguments of its package
\* manager: npm install --save-dev NAME, yarn add --dev NAME, or
\* pnpm add --save-dev NAME; without a call nothing is spawned.
C18_OneSpawnPerCall ==
    /\ installState = NotCalled => SpawnCalls = <<>>
    /\ installState # NotCalled =>
          /\ Len(SpawnCalls) = 1
          /\ Len(InstallAnnounced) = 1
          /\ LET kind == InstallAnnounced[1].args[4]
                 name == InstallAnnounced[1].args[2]
                 argv == SpawnCalls[1].args
             IN  /\ SpawnCalls[1].outcome = "inherit"
                 /\ kind = "npm" => argv = <<"npm", "install", "--save-dev", name>>
                 /\ kind = "yarn" => argv = <<"yarn", "add", "--dev", name>>
                 /\ kind = "pnpm" => argv = <<"pnpm", "add", "--save-dev", name>>
                 /\ kind \in {"npm", "yarn", "pnpm"}
                 /\ argv[Len(argv)] = name

\* installDependency("yarn", "test-package") has spawned its child, and the
\* child has exited.
C18_Witness ==
    /\ installState # NotCalled
    /\ Len(SpawnCalls) = 1
    /\ SpawnCalls[1].args = <<"yarn", "add", "--dev", "test-package">>
    /\ Len(childEvents) > 0

(***************************************************************************)
(* The order of the walk.                                                  *)
(***************************************************************************)
RECURSIVE Flatten(_)
Flatten(seqs) == IF Len(seqs) = 0 THEN <<>> ELSE seqs[1] \o Flatten(Tail(seqs))

\* The entries below directory p in depth-first order: each entry where
\* readdir lists it, a subdirectory followed at once by all it contains.
RECURSIVE DepthFirst(_)
DepthFirst(p) ==
    LET entries == Listing(p, dirsFirst)
    IN  Flatten([j \in 1..Len(entries) |->
                   LET e == p \o <<entries[j]>>
                   IN  IF e \in SrcDirs THEN <<e>> \o DepthFirst(e) ELSE <<e>>])

\* The entries visited so far, in the order they were stat'ed.
Visited == LET stats == SelectSeq(trace, LAMBDA c : c.op = "stat")
           IN  [j \in 1..Len(stats) |-> stats[j].path]

\* C19: the entries are visited in the order readdir lists them, depth
\* first: the visits so far are an initial part of that order, and all of it
\* once the walk has returned.  So when "all" is answered, every conflict
\* found before it was prompted for on its own, no prompt follows it, and
\* every conflict found after it is copied without one.
C19_DepthFirstInListingOrder ==
    /\ Len(Visited) <= Len(DepthFirst(TemplatesDir))
    /\ Visited = SubSeq(DepthFirst(TemplatesDir), 1, Len(Visited))
    /\ Returned => Visited = DepthFirst(TemplatesDir)
    /\ \A k \in Idx : (IsOp(k, "response") /\ trace[k].arg = "all") =>
          /\ \A j \in 1..(k - 1) : FoundAt(j) =>
                /\ IsOp(j + 1, "promptOverwrite")
                /\ trace[j + 1].file = trace[j].file
          /\ \A m \in (k + 1)..Len(trace) :
                /\ ~IsOp(m, "promptOverwrite")
                /\ FoundAt(m) => CopyFollows(m)

\* One conflict was answered on its own, "all" was answered for a file in a
\* subdirectory, and the conflict on the last root entry, visited after the
\* subdirectory, was then copied without a prompt.
C19_Witness ==
    /\ Returned
    /\ \E j, k, m \in Idx :
          /\ j < k /\ k < m
          /\ IsOp(j, "response") /\ trace[j].arg \in {"true", "false"}
          /\ IsOp(k, "response") /\ trace[k].arg = "all"
          /\ Len(trace[k].file) > Len(TemplatesDir) + 1
          /\ FoundAt(m) /\ trace[m].file = Append(TemplatesDir, LastName)
          /\ DestOf(trace[m].file) \in newFiles

(***************************************************************************)
(* A failed existence check.                                               *)
(***************************************************************************)
CheckFailedAt(k) == IsOp(k, "access") /\ trace[k].arg # "ok"

\* C20: when the existence check of a destination fails, for whatever cause,
\* the walk does not fail at that call, promptOverwrite is never called for
\* that file, the next calls are the mkdir and the copyFile of that file, and
\* they and the call after them are made with overwriteAll as it was at the
\* check.
C20_FailedCheckMeansAbsent ==
    \A k \in Idx : CheckFailedAt(k) =>
        /\ trace[k].arg \in {"ENOENT", "EACCES"}
        /\ k = Len(trace) => (cpc = "mkdir" /\ copyResult = "none")
        /\ PromptsFor(trace[k].file) = {}
        /\ CopyFollows(k)
        /\ \A m \in (k + 1)..Len(trace) :
              m <= k + 3 => trace[m].flag = trace[k].flag

\* The check of a file that is in the destination failed with EACCES while
\* overwriteAll was false, and the file was overwritten without a prompt.
C20_Witness ==
    \E k \in Idx :
        /\ IsOp(k, "access")
        /\ trace[k].arg = "EACCES"
        /\ trace[k].path \in preExisting
        /\ ~trace[k].flag
        /\ k + 2 <= Len(trace)
        /\ IsOp(k + 2, "copyFile")
        /\ trace[k + 2].arg = "ok"
        /\ trace[k].path \in newFiles

(***************************************************************************)
(* The child emitting both of its events.                                  *)
(***************************************************************************)
Settled(promise) == promise.status \in {"resolved", "rejected"}

\* C21: the promise installDependency returned settles once.  A settled
\* promise is never changed by a later step, and once the child has emitted
\* both "error" and "exit", in either order, the promise still holds what
\* the first of them gave it: the launch error if "error" came first
\* (whatever the exit code that followed, 0 included), resolved if an exit
\* with code 0 came first, rejected by the exit handler if an exit with
\* another code came first.
C21_SettlesExactlyOnce ==
    [][ /\ Settled(installState) => installState' = installState
        /\ Len(childEvents') = 2 =>
              LET first == childEvents'[1]
                  second == childEvents'[2]
              IN  /\ {first.name, second.name} = {"error", "exit"}
                  /\ first.name = "error" =>
                        installState' = Rejected(first.error)
                  /\ (first.name = "exit" /\ first.code = Code(0)) =>
                        installState' = Resolved
                  /\ (first.name = "exit" /\ first.code # Code(0)) =>
                        /\ installState'.status = "rejected"
                        /\ installState'.error # second.error ]_vars

\* The child failed to launch and then exited with code 0; the call is
\* rejected with the launch error.
C21_Witness ==
    /\ Len(childEvents) = 2
    /\ childEvents[1].name = "error"
    /\ childEvents[2].name = "exit"
    /\ childEvents[2].code = Code(0)
    /\ installState = Rejected(childEvents[1].error)

====
